---- MODULE Spec2Model ----
(***************************************************************************)
(* Model of etl_pipeline (src/pipeline.py): a Cloud Storage triggered job  *)
(* that reads a CSV of sales rows, computes four grouped aggregates,       *)
(* builds a star schema (four dimension tables and one fact table) and     *)
(* loads the five tables into BigQuery, one load job after the other.      *)
(*                                                                         *)
(* A table is a sequence of rows; a row is a function from column names    *)
(* to cell values.  The text of a date is the triple of its numeric        *)
(* fields <<year, month, day>>; a parsed date is a record.  A cell that    *)
(* a left merge may leave empty holds <<v>> when matched and <<>> (NaN)    *)
(* when unmatched.                                                         *)
(***************************************************************************)
EXTENDS Integers, Sequences, FiniteSets, TLC

\* ------------------------------------------------------------------ bounds
MaxRows == 2        \* longest raw table drawn as input
MaxRuns == 2        \* how often the trigger fires for one file (SpecRerun)

\* ------------------------------------------------------- columns and values
NaN == "NaN"        \* a missing key (pandas NaN in an identifier column)
Null == <<>>        \* a missing aggregate cell after a left merge

Some(v) == <<v>>

Columns ==
  {"Customer ID", "Customer Name", "Segment", "Country", "City", "State",
   "Postal Code", "Product ID", "Product Name", "Category", "Sub-Category",
   "Order ID", "Order Date", "Ship Mode", "Region", "Sales", "Quantity",
   "Discount", "Profit"}

CustomerIDs == {NaN, "C1", "C2"}
ProductIDs == {"P1", "P2"}
OrderIDs == {"O1", "O2", "O3", "O4"}

\* Ascending order of the identifiers, as a sort of the group keys yields it.
KeyOrder == <<"C1", "C2", "P1", "P2">>

\* The text of each order's date; "O4" carries a text that is no date.
OrderDateText ==
  ("O1" :> <<2024, 3, 15>>) @@ ("O2" :> <<2024, 3, 15>>) @@
  ("O3" :> <<2024, 11, 2>>) @@ ("O4" :> <<2024, 13, 45>>)

OrderQuantity == ("O1" :> 1) @@ ("O2" :> 2) @@ ("O3" :> 3) @@ ("O4" :> 1)

UnitPrice == ("P1" :> 10) @@ ("P2" :> 25)

\* One raw CSV row: customer c buys product p in order o.
RawRow(c, p, o) ==
  ("Customer ID" :> c) @@ ("Customer Name" :> <<"name", c>>) @@
  ("Segment" :> "Consumer") @@ ("Country" :> "US") @@ ("City" :> "Austin") @@
  ("State" :> "TX") @@ ("Postal Code" :> "73301") @@
  ("Product ID" :> p) @@ ("Product Name" :> <<"name", p>>) @@
  ("Category" :> "Office") @@ ("Sub-Category" :> "Paper") @@
  ("Order ID" :> o) @@ ("Order Date" :> OrderDateText[o]) @@
  ("Ship Mode" :> "Standard") @@ ("Region" :> "Central") @@
  ("Sales" :> UnitPrice[p] * OrderQuantity[o]) @@
  ("Quantity" :> OrderQuantity[o]) @@ ("Discount" :> 0) @@
  ("Profit" :> UnitPrice[p])

RowUniverse ==
  {RawRow(c, p, o) : c \in CustomerIDs, p \in ProductIDs, o \in OrderIDs}

SeqsUpTo(S, n) == UNION {[1..k -> S] : k \in 0..n}

\* ------------------------------------------------------- table primitives
\* df[[cols]]: keep the named columns of every row.
Project(rows, cols) ==
  [i \in 1..Len(rows) |-> [c \in cols |-> rows[i][c]]]

\* The rows at the positions in keep, in their order.
RECURSIVE Pick(_, _, _)
Pick(rows, keep, i) ==
  IF i > Len(rows) THEN <<>>
  ELSE (IF i \in keep THEN <<rows[i]>> ELSE <<>>) \o Pick(rows, keep, i + 1)

DropDuplicatesNone(rows, key) == rows

\* drop_duplicates(subset=[key]).reset_index(drop=True): the first row of
\* each key value is kept (NaN counts as a value equal to itself).
DropDuplicates(rows, key) ==
  Pick(rows,
       {i \in 1..Len(rows) : \A j \in 1..(i - 1) : rows[j][key] # rows[i][key]},
       1)

\* drop_duplicates() with no subset: duplicates are whole rows.
DropDuplicateRows(rows) ==
  Pick(rows, {i \in 1..Len(rows) : \A j \in 1..(i - 1) : rows[j] # rows[i]}, 1)

\* groupby(key): the group keys in ascending order, NaN keys dropped.
GroupKeys(rows, key) ==
  SelectSeq(KeyOrder,
            LAMBDA k : k # NaN /\ \E i \in 1..Len(rows) : rows[i][key] = k)

\* The cells of column col in the rows of group k, in row order.
GroupCells(rows, key, k, col) ==
  LET idx == {i \in 1..Len(rows) : rows[i][key] = k}
      sel == Pick(rows, idx, 1)
  IN  [i \in 1..Len(sel) |-> sel[i][col]]

RECURSIVE SumCells(_)
SumCells(cells) ==
  IF cells = <<>> THEN 0 ELSE Head(cells) + SumCells(Tail(cells))

RECURSIVE MaxCells(_)
MaxCells(cells) ==
  IF Len(cells) = 1 THEN Head(cells)
  ELSE LET m == MaxCells(Tail(cells))
       IN  IF Head(cells) > m THEN Head(cells) ELSE m

\* The mean as the exact fraction num/den.
MeanCells(cells) == [num |-> SumCells(cells), den |-> Len(cells)]

\* groupby(key)[col].sum().reset_index() and the rename of col to name.
GroupSum(rows, key, col, name) ==
  LET ks == GroupKeys(rows, key)
  IN  [j \in 1..Len(ks) |->
         (key :> ks[j]) @@ (name :> SumCells(GroupCells(rows, key, ks[j], col)))]

GroupMax(rows, key, col, name) ==
  LET ks == GroupKeys(rows, key)
  IN  [j \in 1..Len(ks) |->
         (key :> ks[j]) @@ (name :> MaxCells(GroupCells(rows, key, ks[j], col)))]

GroupMean(rows, key, col, name) ==
  LET ks == GroupKeys(rows, key)
  IN  [j \in 1..Len(ks) |->
         (key :> ks[j]) @@ (name :> MeanCells(GroupCells(rows, key, ks[j], col)))]

\* An inner merge: a left row with no match is dropped.
RECURSIVE MergeInner(_, _, _, _)
MergeInner(left, right, key, name) ==
  IF left = <<>> THEN <<>>
  ELSE LET l == Head(left)
           m == SelectSeq(right, LAMBDA r : r[key] = l[key])
       IN  [j \in 1..Len(m) |-> l @@ (name :> Some(m[j][name]))]
           \o MergeInner(Tail(left), right, key, name)

\* left.merge(right, on=key, how='left'): every left row, in left order,
\* once per matching right row, or once with an empty cell when none matches.
RECURSIVE MergeLeft(_, _, _, _)
MergeLeft(left, right, key, name) ==
  IF left = <<>> THEN <<>>
  ELSE LET l == Head(left)
           m == SelectSeq(right, LAMBDA r : r[key] = l[key])
       IN  (IF m = <<>> THEN <<l @@ (name :> Null)>>
            ELSE [j \in 1..Len(m) |-> l @@ (name :> Some(m[j][name]))])
           \o MergeLeft(Tail(left), right, key, name)

\* ------------------------------------------------------------ the transform
\* The columns each statement of the transform looks up by name.
FeatureCols == {"Customer ID", "Sales", "Quantity", "Product ID"}

CustomerDimCols ==
  {"Customer ID", "Customer Name", "Segment", "Country", "City", "State",
   "Postal Code"}

ProductDimCols == {"Product ID", "Product Name", "Category", "Sub-Category"}

OrderDimCols == {"Order ID", "Order Date", "Ship Mode"}

FactSelectColsNoRegion ==
  {"Order ID", "Product ID", "Customer ID", "Order Date", "Sales",
   "Quantity", "Discount", "Profit"}

FactSelectCols ==
  {"Order ID", "Product ID", "Customer ID", "Order Date", "Region", "Sales",
   "Quantity", "Discount", "Profit"}

FactCols ==
  {"Sale ID", "Order ID", "Product ID", "Customer ID", "Date", "Sales",
   "Quantity", "Discount", "Profit", "customers.SUM(sales.Sales)",
   "customers.MAX(sales.Quantity)", "products.SUM(sales.Sales)",
   "products.MEAN(sales.Sales)"}

SchemaCols ==
  CustomerDimCols \cup ProductDimCols \cup OrderDimCols \cup FactSelectCols

CustomerSalesAsMax(rows) ==
  GroupMax(rows, "Customer ID", "Sales", "customers.SUM(sales.Sales)")

CustomerSales(rows) ==
  GroupSum(rows, "Customer ID", "Sales", "customers.SUM(sales.Sales)")

CustomerMaxQuantity(rows) ==
  GroupMax(rows, "Customer ID", "Quantity", "customers.MAX(sales.Quantity)")

ProductSales(rows) ==
  GroupSum(rows, "Product ID", "Sales", "products.SUM(sales.Sales)")

ProductAvgSales(rows) ==
  GroupMean(rows, "Product ID", "Sales", "products.MEAN(sales.Sales)")

Aggregates(rows) ==
  [customer_sales |-> CustomerSales(rows),
   customer_max_quantity |-> CustomerMaxQuantity(rows),
   product_sales |-> ProductSales(rows),
   product_avg_sales |-> ProductAvgSales(rows)]

NoAggregates ==
  [customer_sales |-> <<>>, customer_max_quantity |-> <<>>,
   product_sales |-> <<>>, product_avg_sales |-> <<>>]

IsLeapYear(y) == (y % 4 = 0 /\ y % 100 # 0) \/ y % 400 = 0

DaysInMonth(y, m) ==
  IF m = 2 THEN (IF IsLeapYear(y) THEN 29 ELSE 28)
  ELSE IF m \in {4, 6, 9, 11} THEN 30 ELSE 31

\* Whether a date text denotes a calendar date.
IsDate(text) ==
  /\ text[2] \in 1..12
  /\ text[3] >= 1
  /\ text[3] <= DaysInMonth(text[1], text[2])

ParseDate(text) == [year |-> text[1], month |-> text[2], day |-> text[3]]

\* pd.to_datetime(df['Order Date']) raises unless every text is a date.
CanParseDates(rows) == \A i \in 1..Len(rows) : IsDate(rows[i]["Order Date"])

ToDatetime(rows) ==
  [i \in 1..Len(rows) |->
     [rows[i] EXCEPT !["Order Date"] = ParseDate(rows[i]["Order Date"])]]

Quarter(month) == ((month - 1) \div 3) + 1

\* rename(columns={old: new})
Rename(rows, old, new) ==
  [i \in 1..Len(rows) |->
     [c \in (DOMAIN rows[i] \ {old}) \cup {new} |->
        IF c = new THEN rows[i][old] ELSE rows[i][c]]]

CustomerDim(rows) ==
  DropDuplicates(Project(rows, CustomerDimCols), "Customer ID")

ProductDim(rows) ==
  DropDuplicates(Project(rows, ProductDimCols), "Product ID")

OrderDim(rows) ==
  DropDuplicates(Project(rows, OrderDimCols), "Order ID")

\* rows: the frame after its Order Date column was parsed.
TimeDim(rows) ==
  LET d == DropDuplicateRows(Project(rows, {"Order Date"}))
  IN  [i \in 1..Len(d) |->
         ("Date" :> d[i]["Order Date"]) @@
         ("Day" :> d[i]["Order Date"].day) @@
         ("Month" :> d[i]["Order Date"].month) @@
         ("Quarter" :> Quarter(d[i]["Order Date"].month)) @@
         ("Year" :> d[i]["Order Date"].year)]

SaleIDFromZero(i) == i - 1

\* range(1, len(sales_fact) + 1): the Sale ID of the row at position i.
SaleID(i) == i

\* rows: the frame after its Order Date column was parsed.
SalesFact(rows, agg) ==
  LET sel == Project(rows, FactSelectCols)
      ids == [i \in 1..Len(sel) |-> sel[i] @@ ("Sale ID" :> SaleID(i))]
      f0 == Rename(ids, "Order Date", "Date")
      f1 == MergeLeft(f0, agg.customer_sales, "Customer ID",
                      "customers.SUM(sales.Sales)")
      f2 == MergeLeft(f1, agg.customer_max_quantity, "Customer ID",
                      "customers.MAX(sales.Quantity)")
      f3 == MergeLeft(f2, agg.product_sales, "Product ID",
                      "products.SUM(sales.Sales)")
      f4 == MergeLeft(f3, agg.product_avg_sales, "Product ID",
                      "products.MEAN(sales.Sales)")
  IN  Project(f4, FactCols)

\* The five tables in the order the dict of tables lists them.
TableOrder ==
  <<"customer_dim", "product_dim", "order_dim", "time_dim", "sales_fact">>

TableNames == {TableOrder[i] : i \in 1..Len(TableOrder)}

NoTables == [t \in TableNames |-> <<>>]

\* rows: the raw frame; agg: the aggregates computed from it.
StarSchema(rows, agg) ==
  LET parsed == ToDatetime(rows)
  IN  ("customer_dim" :> CustomerDim(rows)) @@
      ("product_dim" :> ProductDim(rows)) @@
      ("order_dim" :> OrderDim(rows)) @@
      ("time_dim" :> TimeDim(parsed)) @@
      ("sales_fact" :> SalesFact(parsed, agg))

\* --------------------------------------------------------------- the state
Procs == {1, 2}     \* invocations of etl_pipeline

VARIABLES
  blob,      \* blob[p]: the CSV object that triggered p, as header and rows
  pc,        \* pc[p]: where p stands: off, load, feature, schema, sink, wait, done
  df,        \* df[p]: the frame read_csv returned
  agg,       \* agg[p]: the four aggregate tables
  tables,    \* tables[p]: the five tables of the star schema
  built,     \* built[p]: whether tables[p] was computed in this run
  idx,       \* idx[p]: position in TableOrder of the table the loop is at
  written,   \* written[p]: the tables whose load job this run saw complete
  log,       \* log[p]: the kind of error the except clause printed, or "none"
  outcome,   \* outcome[p]: running, returned, or raised (to the caller)
  jobs,      \* the load jobs BigQuery holds that no client has collected
  dest,      \* dest[t]: the rows of destination table t in BigQuery
  before,    \* before[p]: dest as it was when this run of p began
  runs       \* runs[p]: how often the trigger has fired for p

vars ==
  <<blob, pc, df, agg, tables, built, idx, written, log, outcome, jobs, dest,
    before, runs>>

NoFrame == [cols |-> {}, rows |-> <<>>]

\* A CSV object with header cols whose rows are rows, cut to that header.
File(cols, rows) == [cols |-> cols, rows |-> Project(rows, cols)]

\* Inputs of one invocation: every table of up to MaxRows rows with the full
\* header, and every header that lacks one column over a one-row table.
Inputs ==
  {File(Columns, r) : r \in SeqsUpTo(RowUniverse, MaxRows)}
    \cup {File(Columns \ {c}, <<RawRow("C1", "P1", "O1")>>) : c \in Columns}

FileA == File(Columns, <<RawRow("C1", "P1", "O1"), RawRow("C1", "P2", "O3")>>)

FileB == File(Columns, <<RawRow("C2", "P1", "O2")>>)

FileC == File(Columns \ {"Discount"}, <<RawRow("C1", "P1", "O1")>>)

\* Inputs of the rerun and the concurrent specifications.
SmallInputs == {FileA, FileB, FileC}

ErrorKinds == {"RetrievalError", "DecodeError", "TransformError", "WriteError"}

CaughtUnlessWrite(kind) == kind # "WriteError"

\* except Exception: every error kind of the pipeline is an Exception.
Caught(kind) == kind \in ErrorKinds

\* What a completed load job leaves in a table that held old: the job is
\* created with no job_config, so its write disposition is the service's
\* default, WRITE_APPEND.
WriteTable(old, new) == old \o new

MyJobs(p) == {j \in jobs : j.owner = p}

\* An exception of the given kind is raised inside the try block.
Raise(p, kind) ==
  /\ pc' = [pc EXCEPT ![p] = "done"]
  /\ log' = [log EXCEPT ![p] = IF Caught(kind) THEN kind ELSE @]
  /\ outcome' = [outcome EXCEPT ![p] = IF Caught(kind) THEN "returned" ELSE "raised"]

InitShared ==
  /\ df = [p \in Procs |-> NoFrame]
  /\ agg = [p \in Procs |-> NoAggregates]
  /\ tables = [p \in Procs |-> NoTables]
  /\ built = [p \in Procs |-> FALSE]
  /\ idx = [p \in Procs |-> 1]
  /\ written = [p \in Procs |-> <<>>]
  /\ log = [p \in Procs |-> "none"]
  /\ outcome = [p \in Procs |-> "running"]
  /\ jobs = {}
  /\ dest = NoTables
  /\ before = [p \in Procs |-> NoTables]
  /\ runs = [p \in Procs |-> 1]

\* One invocation.
Init ==
  /\ \E f \in Inputs : blob = (1 :> f) @@ (2 :> NoFrame)
  /\ pc = (1 :> "load") @@ (2 :> "off")
  /\ InitShared

\* One invocation of a file for which the trigger may fire again.
InitRerun ==
  /\ \E f \in SmallInputs : blob = (1 :> f) @@ (2 :> NoFrame)
  /\ pc = (1 :> "load") @@ (2 :> "off")
  /\ InitShared

\* Two concurrent invocations.
InitConc ==
  /\ blob \in [Procs -> SmallInputs]
  /\ pc = [p \in Procs |-> "load"]
  /\ InitShared

\* ------------------------------------------------------------- the actions
\* blob.download_as_text() and pd.read_csv succeed.
Load(p) ==
  /\ pc[p] = "load"
  /\ df' = [df EXCEPT ![p] = blob[p]]
  /\ pc' = [pc EXCEPT ![p] = "feature"]
  /\ UNCHANGED <<blob, agg, tables, built, idx, written, log, outcome, jobs,
                 dest, before, runs>>

\* The object cannot be retrieved, or its text is no delimited text.
LoadFail(p) ==
  /\ pc[p] = "load"
  /\ \E kind \in {"RetrievalError", "DecodeError"} : Raise(p, kind)
  /\ UNCHANGED <<blob, df, agg, tables, built, idx, written, jobs, dest,
                 before, runs>>

\* The four groupby statements; a missing column is a KeyError.
FeatureEngineer(p) ==
  /\ pc[p] = "feature"
  /\ IF FeatureCols \subseteq df[p].cols
     THEN /\ agg' = [agg EXCEPT ![p] = Aggregates(df[p].rows)]
          /\ pc' = [pc EXCEPT ![p] = "schema"]
          /\ UNCHANGED <<log, outcome>>
     ELSE /\ Raise(p, "TransformError")
          /\ UNCHANGED agg
  /\ UNCHANGED <<blob, df, tables, built, idx, written, jobs, dest, before,
                 runs>>

\* The four dimension tables and the fact table; a missing column is a
\* KeyError and a text that is no date a ValueError.
BuildSchema(p) ==
  /\ pc[p] = "schema"
  /\ IF SchemaCols \subseteq df[p].cols /\ CanParseDates(df[p].rows)
     THEN /\ tables' = [tables EXCEPT ![p] = StarSchema(df[p].rows, agg[p])]
          /\ built' = [built EXCEPT ![p] = TRUE]
          /\ pc' = [pc EXCEPT ![p] = "sink"]
          /\ UNCHANGED <<log, outcome>>
     ELSE /\ Raise(p, "TransformError")
          /\ UNCHANGED <<tables, built>>
  /\ UNCHANGED <<blob, df, agg, idx, written, jobs, dest, before, runs>>

LoadJob(p) ==
  [owner |-> p, table |-> TableOrder[idx[p]],
   rows |-> tables[p][TableOrder[idx[p]]], state |-> "RUNNING"]

\* The loop goes on to the next table without waiting for the job.
SubmitLoadNoWait(p) ==
  /\ pc[p] = "sink"
  /\ jobs' = jobs \cup {LoadJob(p)}
  /\ written' = [written EXCEPT ![p] = Append(@, TableOrder[idx[p]])]
  /\ IF idx[p] = Len(TableOrder)
     THEN /\ pc' = [pc EXCEPT ![p] = "done"]
          /\ outcome' = [outcome EXCEPT ![p] = "returned"]
          /\ UNCHANGED idx
     ELSE /\ idx' = [idx EXCEPT ![p] = @ + 1]
          /\ UNCHANGED <<pc, outcome>>
  /\ UNCHANGED <<blob, df, agg, tables, built, log, dest, before, runs>>

\* load_table_from_dataframe starts the load job of the table the loop is at.
SubmitLoad(p) ==
  /\ pc[p] = "sink"
  /\ jobs' = jobs \cup {LoadJob(p)}
  /\ pc' = [pc EXCEPT ![p] = "wait"]
  /\ UNCHANGED <<blob, df, agg, tables, built, idx, written, log, outcome,
                 dest, before, runs>>

\* load_table_from_dataframe raises: no job is started.
SubmitFail(p) ==
  /\ pc[p] = "sink"
  /\ Raise(p, "WriteError")
  /\ UNCHANGED <<blob, df, agg, tables, built, idx, written, jobs, dest,
                 before, runs>>

\* BigQuery completes a load job: all its rows reach the table at once.
StoreCommit(j) ==
  /\ j.state = "RUNNING"
  /\ dest' = [dest EXCEPT ![j.table] = WriteTable(@, j.rows)]
  /\ jobs' = (jobs \ {j}) \cup {[j EXCEPT !.state = "DONE"]}
  /\ UNCHANGED <<blob, pc, df, agg, tables, built, idx, written, log,
                 outcome, before, runs>>

\* BigQuery fails a load job: the table is left as it was.
StoreReject(j) ==
  /\ j.state = "RUNNING"
  /\ jobs' = (jobs \ {j}) \cup {[j EXCEPT !.state = "FAILED"]}
  /\ UNCHANGED <<blob, pc, df, agg, tables, built, idx, written, log,
                 outcome, dest, before, runs>>

\* After a failed job the loop goes on to the next table.
JobResultContinue(p) ==
  /\ pc[p] = "wait"
  /\ \E j \in MyJobs(p) :
       /\ j.state # "RUNNING"
       /\ jobs' = jobs \ {j}
       /\ written' = [written EXCEPT ![p] =
                        IF j.state = "DONE" THEN Append(@, j.table) ELSE @]
       /\ IF idx[p] = Len(TableOrder)
          THEN /\ pc' = [pc EXCEPT ![p] = "done"]
               /\ outcome' = [outcome EXCEPT ![p] = "returned"]
               /\ UNCHANGED idx
          ELSE /\ pc' = [pc EXCEPT ![p] = "sink"]
               /\ idx' = [idx EXCEPT ![p] = @ + 1]
               /\ UNCHANGED outcome
       /\ log' = [log EXCEPT ![p] = IF j.state = "DONE" THEN @ ELSE "WriteError"]
  /\ UNCHANGED <<blob, df, agg, tables, built, dest, before, runs>>

\* job.result() returns once the job is done, or raises when it failed;
\* after the last table the function returns.
JobResult(p) ==
  /\ pc[p] = "wait"
  /\ \E j \in MyJobs(p) :
       /\ j.state # "RUNNING"
       /\ jobs' = jobs \ {j}
       /\ IF j.state = "DONE"
          THEN /\ written' = [written EXCEPT ![p] = Append(@, j.table)]
               /\ IF idx[p] = Len(TableOrder)
                  THEN /\ pc' = [pc EXCEPT ![p] = "done"]
                       /\ outcome' = [outcome EXCEPT ![p] = "returned"]
                       /\ UNCHANGED idx
                  ELSE /\ pc' = [pc EXCEPT ![p] = "sink"]
                       /\ idx' = [idx EXCEPT ![p] = @ + 1]
                       /\ UNCHANGED outcome
               /\ UNCHANGED log
          ELSE /\ Raise(p, "WriteError")
               /\ UNCHANGED <<idx, written>>
  /\ UNCHANGED <<blob, df, agg, tables, built, dest, before, runs>>

\* The trigger fires again for the same object: the function starts afresh.
Retrigger(p) ==
  /\ pc[p] = "done"
  /\ runs[p] < MaxRuns
  /\ MyJobs(p) = {}
  /\ runs' = [runs EXCEPT ![p] = @ + 1]
  /\ pc' = [pc EXCEPT ![p] = "load"]
  /\ df' = [df EXCEPT ![p] = NoFrame]
  /\ agg' = [agg EXCEPT ![p] = NoAggregates]
  /\ tables' = [tables EXCEPT ![p] = NoTables]
  /\ built' = [built EXCEPT ![p] = FALSE]
  /\ idx' = [idx EXCEPT ![p] = 1]
  /\ written' = [written EXCEPT ![p] = <<>>]
  /\ log' = [log EXCEPT ![p] = "none"]
  /\ outcome' = [outcome EXCEPT ![p] = "running"]
  /\ before' = [before EXCEPT ![p] = dest]
  /\ UNCHANGED <<blob, jobs, dest>>

Next ==
  \/ \E p \in Procs : Load(p)
  \/ \E p \in Procs : LoadFail(p)
  \/ \E p \in Procs : FeatureEngineer(p)
  \/ \E p \in Procs : BuildSchema(p)
  \/ \E p \in Procs : SubmitLoad(p)
  \/ \E p \in Procs : SubmitFail(p)
  \/ \E j \in jobs : StoreCommit(j)
  \/ \E j \in jobs : StoreReject(j)
  \/ \E p \in Procs : JobResult(p)

NextRerun ==
  \/ Next
  \/ \E p \in Procs : Retrigger(p)

\* One invocation of etl_pipeline.
Spec == Init /\ [][Next]_vars

\* One object for which the trigger fires up to MaxRuns times.
SpecRerun == InitRerun /\ [][NextRerun]_vars

\* Two invocations running at once.
SpecConc == InitConc /\ [][Next]_vars

\* -------------------------------------------------------------- the claims
Raw(p) == blob[p].rows

Fact(p) == tables[p]["sales_fact"]

KeysOf(rows, key) == {rows[i][key] : i \in 1..Len(rows)}

NoDuplicateKey(rows, key) ==
  \A i, j \in 1..Len(rows) : rows[i][key] = rows[j][key] => i = j

\* The Sales of customer c summed row by row over the raw table.
RECURSIVE SalesOfCustomer(_, _)
SalesOfCustomer(rows, c) ==
  IF rows = <<>> THEN 0
  ELSE (IF Head(rows)["Customer ID"] = c THEN Head(rows)["Sales"] ELSE 0)
       + SalesOfCustomer(Tail(rows), c)

\* C1: the fact table has exactly as many rows as the raw table, whatever
\* identifiers repeat or are missing in it: no merge adds or removes a row.
C1_FactRowCount ==
  \A p \in Procs : built[p] => Len(Fact(p)) = Len(Raw(p))

C1_Witness ==
  /\ built[1]
  /\ Len(Raw(1)) = 2
  /\ Raw(1)[1]["Customer ID"] = Raw(1)[2]["Customer ID"]
  /\ Raw(1)[1]["Product ID"] = Raw(1)[2]["Product ID"]
  /\ Raw(1)[1]["Customer ID"] = "C1"
  /\ Len(Fact(1)) = 2

\* C2: no dimension table has two rows with the same key, and every key of
\* a raw row (its date once parsed, for time_dim) is a key of its dimension.
C2_DimensionKeys ==
  \A p \in Procs : built[p] =>
    /\ NoDuplicateKey(tables[p]["customer_dim"], "Customer ID")
    /\ NoDuplicateKey(tables[p]["product_dim"], "Product ID")
    /\ NoDuplicateKey(tables[p]["order_dim"], "Order ID")
    /\ NoDuplicateKey(tables[p]["time_dim"], "Date")
    /\ KeysOf(Raw(p), "Customer ID") = KeysOf(tables[p]["customer_dim"], "Customer ID")
    /\ KeysOf(Raw(p), "Product ID") = KeysOf(tables[p]["product_dim"], "Product ID")
    /\ KeysOf(Raw(p), "Order ID") = KeysOf(tables[p]["order_dim"], "Order ID")
    /\ {ParseDate(d) : d \in KeysOf(Raw(p), "Order Date")}
         = KeysOf(tables[p]["time_dim"], "Date")

C2_Witness ==
  /\ built[1]
  /\ Len(Raw(1)) = 2
  /\ Raw(1)[1]["Customer ID"] = Raw(1)[2]["Customer ID"]
  /\ Raw(1)[1]["Order ID"] # Raw(1)[2]["Order ID"]
  /\ Raw(1)[1]["Order Date"] = Raw(1)[2]["Order Date"]
  /\ Len(tables[1]["customer_dim"]) = 1
  /\ Len(tables[1]["order_dim"]) = 2
  /\ Len(tables[1]["time_dim"]) = 1

\* C3: the Sale IDs of the final fact table are 1..N in raw row order: the
\* row with Sale ID i is at position i and carries the identifiers and the
\* measures of the i-th raw row.
C3_SaleIds ==
  \A p \in Procs : built[p] =>
    /\ Len(Fact(p)) = Len(Raw(p))
    /\ \A i \in 1..Len(Raw(p)) :
         /\ Fact(p)[i]["Sale ID"] = i
         /\ \A c \in {"Order ID", "Product ID", "Customer ID", "Sales",
                      "Quantity", "Discount", "Profit"} :
              Fact(p)[i][c] = Raw(p)[i][c]

C3_Witness ==
  /\ built[1]
  /\ Len(Raw(1)) = 2
  /\ Raw(1)[1]["Customer ID"] = "C2"
  /\ Raw(1)[2]["Customer ID"] = "C1"
  /\ Fact(1)[2]["Sale ID"] = 2
  /\ Fact(1)[2]["Customer ID"] = "C1"

\* C4: in every fact row of a present customer, the customer's sum column
\* is the sum of Sales over the raw rows of that customer.
C4_CustomerSum ==
  \A p \in Procs : built[p] =>
    \A i \in 1..Len(Fact(p)) :
      Fact(p)[i]["Customer ID"] # NaN =>
        Fact(p)[i]["customers.SUM(sales.Sales)"]
          = Some(SalesOfCustomer(Raw(p), Fact(p)[i]["Customer ID"]))

C4_Witness ==
  /\ built[1]
  /\ Len(Raw(1)) = 2
  /\ Raw(1)[1]["Customer ID"] = "C2"
  /\ Raw(1)[2]["Customer ID"] = "C2"
  /\ Raw(1)[1]["Sales"] = 10
  /\ Raw(1)[2]["Sales"] = 75
  /\ Fact(1)[1]["customers.SUM(sales.Sales)"] = Some(85)

\* C5: after a run that succeeded, every destination table holds exactly
\* the rows that run computed, whatever the table held before.
C5_Overwrite ==
  \A p \in Procs :
    (pc[p] = "done" /\ log[p] = "none") =>
      \A t \in TableNames : dest[t] = tables[p][t]

\* C6: a raw table that lacks a required column never gets past the
\* transform: no star schema is built from it, no load job is started, no
\* destination table changes, and once loaded the run ends in a transform
\* error.
C6_MissingColumn ==
  \A p \in Procs :
    (pc[p] # "off" /\ blob[p].cols # Columns) =>
      /\ ~built[p]
      /\ pc[p] \in {"load", "feature", "schema", "done"}
      /\ MyJobs(p) = {}
      /\ written[p] = <<>>
      /\ dest = before[p]
      /\ (pc[p] = "done" /\ df[p] = blob[p]) => log[p] = "TransformError"

C6_Witness ==
  /\ pc[1] = "done"
  /\ blob[1].cols = Columns \ {"Region"}
  /\ df[1] = blob[1]
  /\ agg[1] # NoAggregates
  /\ log[1] = "TransformError"

\* C7: no invocation ever raises to its caller: when it is over it has
\* returned, after a failure (which it logged) as after a success.
C7_Swallowed ==
  \A p \in Procs :
    /\ outcome[p] # "raised"
    /\ pc[p] = "done" => outcome[p] = "returned"
    /\ (pc[p] = "done" /\ idx[p] <= Len(written[p])) => log[p] = "none"
    /\ (pc[p] = "done" /\ idx[p] > Len(written[p])) => log[p] \in ErrorKinds

C7_Witness ==
  /\ pc[1] = "done"
  /\ log[1] = "WriteError"
  /\ Len(written[1]) = 4
  /\ outcome[1] = "returned"

\* C8: the tables a run has written are a prefix of the table order; a run
\* that fails before the sink leaves every destination table as it was, and
\* a run whose k-th write fails has written the first k-1 tables and left
\* the k-th and all later ones as they were.
C8_PrefixWritten ==
  \A p \in Procs : pc[p] # "off" =>
    /\ written[p] = SubSeq(TableOrder, 1, Len(written[p]))
    /\ ~built[p] => (written[p] = <<>> /\ dest = before[p])
    /\ (pc[p] = "done" /\ log[p] = "WriteError") =>
         /\ Len(written[p]) = idx[p] - 1
         /\ MyJobs(p) = {}
         /\ \A k \in 1..Len(TableOrder) :
              dest[TableOrder[k]] =
                IF k < idx[p]
                THEN before[p][TableOrder[k]] \o tables[p][TableOrder[k]]
                ELSE before[p][TableOrder[k]]

C8_Witness ==
  /\ pc[1] = "done"
  /\ log[1] = "WriteError"
  /\ idx[1] = 3
  /\ written[1] = <<"customer_dim", "product_dim">>
  /\ dest["product_dim"] # before[1]["product_dim"]
  /\ dest["order_dim"] = before[1]["order_dim"]
  /\ runs[1] = 2

\* C9: an invocation has at most one load job running; while one runs the
\* invocation waits for it and every earlier table's job has completed; and
\* a destination table holds a computed table in full or not at all.
C9_OneWriteInFlight ==
  \A p \in Procs : pc[p] # "off" =>
    /\ Cardinality({j \in MyJobs(p) : j.state = "RUNNING"}) <= 1
    /\ \A j \in MyJobs(p) :
         /\ pc[p] = "wait"
         /\ j.table = TableOrder[idx[p]]
         /\ j.rows = tables[p][j.table]
         /\ Len(written[p]) = idx[p] - 1
    /\ \A k \in 1..Len(written[p]) :
         dest[TableOrder[k]] = tables[p][TableOrder[k]]
    /\ \A t \in TableNames : dest[t] \in {<<>>, tables[p][t]}

C9_Witness ==
  /\ \E j \in MyJobs(1) : j.state = "RUNNING" /\ j.table = "product_dim"
  /\ dest["customer_dim"] = tables[1]["customer_dim"]
  /\ Len(dest["customer_dim"]) = 2
  /\ dest["product_dim"] = <<>>

\* C10: when two concurrent invocations have both succeeded, every
\* destination table holds in full the table of one of the two.
C10_LastWriterWins ==
  (\A p \in Procs : pc[p] = "done" /\ log[p] = "none") =>
    \A t \in TableNames : dest[t] \in {tables[p][t] : p \in Procs}

====
